---- MODULE Spec2Model ----
(***************************************************************************)
(* Model of src/convtools/c_extensions/getters.c: the four fail-safe       *)
(* chained accessors                                                       *)
(*     get_item_deep_default_simple    get_item_deep_default_callable      *)
(*     get_attr_deep_default_simple    get_attr_deep_default_callable      *)
(* Each C function is translated on its own (entry, one loop iteration,    *)
(* the return_default label), so that statements comparing the variants    *)
(* are statements about four pieces of code and not about one operator.    *)
(*                                                                         *)
(* PyObject_GetItem, PyObject_GetAttr and PyObject_CallNoArgs are the      *)
(* interpreter's and run arbitrary user code: what they return is drawn    *)
(* from every object and every exception class of the model.               *)
(***************************************************************************)
EXTENDS Integers, Sequences, FiniteSets, TLC

(* ------------------------------ bounds -------------------------------- *)

\* Largest argument count of a call (nargs ranges over 0..MaxArgs).
MaxArgs == 4

(* --------------------------- the object world ------------------------- *)

Py_None == "None"
\* Objects a root, an intermediate value, a default or a factory result can be.
Values == {Py_None, "A", "B"}
\* The C null pointer: the return value of a failed call.
NULL == "NULL"
\* No pending exception (PyErr_Occurred() == NULL).
NoErr == "NoErr"
PyExc_KeyError == "KeyError"
PyExc_IndexError == "IndexError"
PyExc_TypeError == "TypeError"
PyExc_AttributeError == "AttributeError"
PyExc_ValueError == "ValueError"
\* Exception classes that none of the four functions tests for: an unrelated
\* one, and the base class of KeyError and IndexError.
PyExc_RuntimeError == "RuntimeError"
PyExc_LookupError == "LookupError"
\* A class derived from KeyError (user code can define and raise one).
KeyErrorSubclass == "KeyErrorSubclass"
\* What user code run by a step operation or by the factory can raise.
Raisable == {PyExc_KeyError, PyExc_IndexError, PyExc_TypeError,
             PyExc_AttributeError, PyExc_RuntimeError, PyExc_LookupError,
             KeyErrorSubclass}
\* The classes an exception of class cls is an instance of.
Bases(cls) ==
    CASE cls = KeyErrorSubclass -> {KeyErrorSubclass, PyExc_KeyError, PyExc_LookupError}
      [] cls = PyExc_KeyError -> {PyExc_KeyError, PyExc_LookupError}
      [] cls = PyExc_IndexError -> {PyExc_IndexError, PyExc_LookupError}
      [] OTHER -> {cls}
\* The step keys: args[1] .. args[nargs-2] are distinct objects, none a Value.
KeyNames == <<"k1", "k2", "k3", "k4", "k5", "k6">>

\* The result of an interpreter call: a new reference and no pending error, or
\* NULL and the exception raised.
Outcomes == [ret : Values, err : {NoErr}] \cup [ret : {NULL}, err : Raisable]
\* A step position whose operation has not been invoked yet.
Unset == [ret |-> NULL, err |-> NoErr]

\* The argument vectors of a call: root, keys, default (fewer than 3
\* arguments: the first of root, default).
ArgVectors ==
    {<<>>} \cup { <<r>> : r \in Values } \cup
    { <<r>> \o SubSeq(KeyNames, 1, n) \o <<d>> :
         r \in Values, d \in Values, n \in 0 .. (MaxArgs - 2) }

(* ------------------------------- state -------------------------------- *)

VARIABLES
    args,           \* PyObject *args[]: the argument vector of the calls
    nargs,          \* Py_ssize_t nargs
    behaviour,      \* what the step operation at position p does (fixed at its first invocation)
    fn,             \* the function being executed, "idle" between calls
    pc,             \* "idle", "loop", "return_default", "done"
    i,              \* Py_ssize_t i
    default_index,  \* Py_ssize_t default_index
    item,           \* PyObject *item
    a,              \* PyObject *a
    ret,            \* the value returned to the caller (NULL: an error)
    err,            \* the thread's pending exception
    exit,           \* which return statement ended the call
    trace,          \* the step operations invoked by this call, in order
    factoryLog,     \* the PyObject_CallNoArgs invocations made by this call, in order
    owned,          \* per object, the references the call has acquired and not released
    prev            \* what the previous call did (NoCall before the first)

vars == <<args, nargs, behaviour, fn, pc, i, default_index, item, a, ret, err,
          exit, trace, factoryLog, owned, prev>>

\* Every object of the model: the values and the keys.
Objects == Values \cup {KeyNames[n] : n \in 1 .. Len(KeyNames)}

\* The call owns no reference.
NoReferences == [o \in Objects |-> 0]

\* Py_INCREF(o) and Py_DECREF(o), on the references the call owns.
Py_INCREF(rc, o) == [rc EXCEPT ![o] = @ + 1]
Py_DECREF(rc, o) == [rc EXCEPT ![o] = @ - 1]

\* The result of PyObject_GetItem, PyObject_GetAttr or PyObject_CallNoArgs: a
\* new reference, owned by the function that called, unless it is NULL.
NewReference(rc, o) == IF o = NULL THEN rc ELSE Py_INCREF(rc, o)

\* C's args[k] (0-based).
Arg(k) == args[k + 1]

NoCall == [fn |-> "idle"]

locals == <<i, default_index, item, a>>
inputs == <<args, nargs>>

Init ==
    /\ args \in ArgVectors
    /\ nargs = Len(args)
    /\ behaviour = [p \in 1 .. MaxArgs |-> Unset]
    /\ fn = "idle"
    /\ pc = "idle"
    /\ i = 0
    /\ default_index = 0
    /\ item = NULL
    /\ a = NULL
    /\ ret = NULL
    /\ err = NoErr
    /\ exit = "none"
    /\ trace = <<>>
    /\ factoryLog = <<>>
    /\ owned = NoReferences
    /\ prev = NoCall

(* ------------------------ interpreter operations ---------------------- *)

\* PyErr_ExceptionMatches(exc): the pending exception is an instance of exc
\* (of exc itself or of a class derived from it).
PyErr_ExceptionMatches(pending, exc) == exc \in Bases(pending)

\* The outcomes the step operation at position p can have: any at its first
\* invocation, the same one afterwards (the calls of one run share the root,
\* the keys and the behaviour of the objects).
StepOutcomes(p) ==
    IF behaviour[p] = Unset THEN Outcomes ELSE {behaviour[p]}

\* The record of one invoked step operation.
StepRecord(op, p, o, k, r) ==
    [op |-> op, pos |-> p, obj |-> o, key |-> k, ret |-> r.ret, err |-> r.err]

\* The record of one invocation of the factory.
CallRecord(f, r) == [callable |-> f, ret |-> r.ret, err |-> r.err]

\* What a finished call leaves for the comparison with the next one.
Summary ==
    [fn |-> fn, i |-> i, ret |-> ret, err |-> err, exit |-> exit,
     trace |-> trace, factoryLog |-> factoryLog]

(* ------------------- get_item_deep_default_simple --------------------- *)

\* Line 6: if (nargs < 3)
item_simple_too_few(n) == n < 3

\* Faulty variant: the loop stops one key early.
item_simple_continue_short(idx, di) == idx < di - 1

\* Line 18: the loop condition i < default_index
item_simple_continue(idx, di) == idx < di

\* Line 19: if (item == Py_None)
item_simple_at_none(it) == it = Py_None

\* Line 23: the key of PyObject_GetItem(item, args[i])
item_simple_key(idx) == Arg(idx)

\* Lines 26-28: PyErr_ExceptionMatches(PyExc_KeyError) ||
\* PyErr_ExceptionMatches(PyExc_IndexError) || PyErr_ExceptionMatches(PyExc_TypeError)
item_simple_is_miss(pending) ==
    \/ PyErr_ExceptionMatches(pending, PyExc_KeyError)
    \/ PyErr_ExceptionMatches(pending, PyExc_IndexError)
    \/ PyErr_ExceptionMatches(pending, PyExc_TypeError)

\* Lines 6-16: the argument-count check, then item = args[0] and i = 1.
item_simple_entry ==
    /\ pc = "idle"
    /\ fn' = "get_item_deep_default_simple"
    /\ IF item_simple_too_few(nargs)
       THEN /\ err' = PyExc_ValueError
            /\ ret' = NULL
            /\ exit' = "too_few_arguments"
            /\ pc' = "done"
            /\ UNCHANGED <<locals, owned>>
       ELSE /\ default_index' = nargs - 1
            /\ item' = Arg(0)
            /\ owned' = Py_INCREF(owned, Arg(0))
            /\ i' = 1
            /\ pc' = "loop"
            /\ UNCHANGED <<a, ret, err, exit>>
    /\ UNCHANGED <<inputs, behaviour, trace, factoryLog, prev>>

\* Lines 18-38: the loop test and one iteration (the sentinel check, the
\* step operation, the classification of its failure), or `return item`.
item_simple_loop ==
    /\ pc = "loop"
    /\ fn = "get_item_deep_default_simple"
    /\ IF item_simple_continue(i, default_index)
       THEN IF item_simple_at_none(item)
            THEN /\ pc' = "return_default"
                 /\ owned' = Py_DECREF(owned, item)
                 /\ UNCHANGED <<behaviour, locals, ret, err, exit, trace>>
            ELSE \E r \in StepOutcomes(i) :
                 /\ behaviour' = [behaviour EXCEPT ![i] = r]
                 /\ trace' = Append(trace, StepRecord("PyObject_GetItem", i, item,
                                                      item_simple_key(i), r))
                 /\ a' = r.ret
                 /\ owned' = Py_DECREF(NewReference(owned, r.ret), item)
                 /\ IF r.ret = NULL
                    THEN IF item_simple_is_miss(r.err)
                         THEN /\ err' = NoErr
                              /\ pc' = "return_default"
                              /\ UNCHANGED <<i, default_index, item, ret, exit>>
                         ELSE /\ err' = r.err
                              /\ ret' = NULL
                              /\ exit' = "step_error"
                              /\ pc' = "done"
                              /\ UNCHANGED <<i, default_index, item>>
                    ELSE /\ item' = r.ret
                         /\ i' = i + 1
                         /\ UNCHANGED <<default_index, pc, ret, err, exit>>
       ELSE /\ ret' = item
            /\ exit' = "item"
            /\ pc' = "done"
            /\ UNCHANGED <<behaviour, locals, err, trace, owned>>
    /\ UNCHANGED <<inputs, fn, factoryLog, prev>>

\* Lines 41-42: Py_INCREF(args[default_index]); return args[default_index];
item_simple_default(di) == Arg(di)

\* Faulty variant: the default is returned without Py_INCREF, a borrowed
\* reference.
item_simple_return_default_borrowed ==
    /\ pc = "return_default"
    /\ fn = "get_item_deep_default_simple"
    /\ ret' = item_simple_default(default_index)
    /\ exit' = "default"
    /\ pc' = "done"
    /\ UNCHANGED <<inputs, behaviour, fn, locals, err, trace, factoryLog, owned, prev>>

\* Lines 40-42: the return_default label: the static default is returned.
item_simple_return_default ==
    /\ pc = "return_default"
    /\ fn = "get_item_deep_default_simple"
    /\ owned' = Py_INCREF(owned, item_simple_default(default_index))
    /\ ret' = item_simple_default(default_index)
    /\ exit' = "default"
    /\ pc' = "done"
    /\ UNCHANGED <<inputs, behaviour, fn, locals, err, trace, factoryLog, prev>>

get_item_deep_default_simple ==
    \/ item_simple_entry
    \/ item_simple_loop
    \/ item_simple_return_default

(* ------------------- get_item_deep_default_callable ------------------- *)

\* Line 48: if (nargs < 3)
item_callable_too_few(n) == n < 3

\* Line 60: the loop condition i < default_index
item_callable_continue(idx, di) == idx < di

\* Faulty variant: the sentinel check is missing.
item_callable_at_none_never(it) == FALSE

\* Line 61: if (item == Py_None)
item_callable_at_none(it) == it = Py_None

\* Line 65: the key of PyObject_GetItem(item, args[i])
item_callable_key(idx) == Arg(idx)

\* Faulty variant: TypeError is not among the exceptions tested for.
item_callable_is_miss_no_type(pending) ==
    \/ PyErr_ExceptionMatches(pending, PyExc_KeyError)
    \/ PyErr_ExceptionMatches(pending, PyExc_IndexError)

\* Lines 68-70: PyErr_ExceptionMatches(PyExc_KeyError) ||
\* PyErr_ExceptionMatches(PyExc_IndexError) || PyErr_ExceptionMatches(PyExc_TypeError)
item_callable_is_miss(pending) ==
    \/ PyErr_ExceptionMatches(pending, PyExc_KeyError)
    \/ PyErr_ExceptionMatches(pending, PyExc_IndexError)
    \/ PyErr_ExceptionMatches(pending, PyExc_TypeError)

\* Lines 48-58: the argument-count check, then item = args[0] and i = 1.
item_callable_entry ==
    /\ pc = "idle"
    /\ fn' = "get_item_deep_default_callable"
    /\ IF item_callable_too_few(nargs)
       THEN /\ err' = PyExc_ValueError
            /\ ret' = NULL
            /\ exit' = "too_few_arguments"
            /\ pc' = "done"
            /\ UNCHANGED <<locals, owned>>
       ELSE /\ default_index' = nargs - 1
            /\ item' = Arg(0)
            /\ owned' = Py_INCREF(owned, Arg(0))
            /\ i' = 1
            /\ pc' = "loop"
            /\ UNCHANGED <<a, ret, err, exit>>
    /\ UNCHANGED <<inputs, behaviour, trace, factoryLog, prev>>

\* Faulty variant: PyErr_Clear() is missing on a classified miss.
item_callable_loop_keeps_error ==
    /\ pc = "loop"
    /\ fn = "get_item_deep_default_callable"
    /\ IF item_callable_continue(i, default_index)
       THEN IF item_callable_at_none(item)
            THEN /\ pc' = "return_default"
                 /\ owned' = Py_DECREF(owned, item)
                 /\ UNCHANGED <<behaviour, locals, ret, err, exit, trace>>
            ELSE \E r \in StepOutcomes(i) :
                 /\ behaviour' = [behaviour EXCEPT ![i] = r]
                 /\ trace' = Append(trace, StepRecord("PyObject_GetItem", i, item,
                                                      item_callable_key(i), r))
                 /\ a' = r.ret
                 /\ owned' = Py_DECREF(NewReference(owned, r.ret), item)
                 /\ IF r.ret = NULL
                    THEN IF item_callable_is_miss(r.err)
                         THEN /\ err' = r.err
                              /\ pc' = "return_default"
                              /\ UNCHANGED <<i, default_index, item, ret, exit>>
                         ELSE /\ err' = r.err
                              /\ ret' = NULL
                              /\ exit' = "step_error"
                              /\ pc' = "done"
                              /\ UNCHANGED <<i, default_index, item>>
                    ELSE /\ item' = r.ret
                         /\ i' = i + 1
                         /\ UNCHANGED <<default_index, pc, ret, err, exit>>
       ELSE /\ ret' = item
            /\ exit' = "item"
            /\ pc' = "done"
            /\ UNCHANGED <<behaviour, locals, err, trace, owned>>
    /\ UNCHANGED <<inputs, fn, factoryLog, prev>>

\* Lines 60-80: the loop test and one iteration (the sentinel check, the
\* step operation, the classification of its failure), or `return item`.
item_callable_loop ==
    /\ pc = "loop"
    /\ fn = "get_item_deep_default_callable"
    /\ IF item_callable_continue(i, default_index)
       THEN IF item_callable_at_none(item)
            THEN /\ pc' = "return_default"
                 /\ owned' = Py_DECREF(owned, item)
                 /\ UNCHANGED <<behaviour, locals, ret, err, exit, trace>>
            ELSE \E r \in StepOutcomes(i) :
                 /\ behaviour' = [behaviour EXCEPT ![i] = r]
                 /\ trace' = Append(trace, StepRecord("PyObject_GetItem", i, item,
                                                      item_callable_key(i), r))
                 /\ a' = r.ret
                 /\ owned' = Py_DECREF(NewReference(owned, r.ret), item)
                 /\ IF r.ret = NULL
                    THEN IF item_callable_is_miss(r.err)
                         THEN /\ err' = NoErr
                              /\ pc' = "return_default"
                              /\ UNCHANGED <<i, default_index, item, ret, exit>>
                         ELSE /\ err' = r.err
                              /\ ret' = NULL
                              /\ exit' = "step_error"
                              /\ pc' = "done"
                              /\ UNCHANGED <<i, default_index, item>>
                    ELSE /\ item' = r.ret
                         /\ i' = i + 1
                         /\ UNCHANGED <<default_index, pc, ret, err, exit>>
       ELSE /\ ret' = item
            /\ exit' = "item"
            /\ pc' = "done"
            /\ UNCHANGED <<behaviour, locals, err, trace, owned>>
    /\ UNCHANGED <<inputs, fn, factoryLog, prev>>

\* Line 83: the callable of PyObject_CallNoArgs(args[default_index])
item_callable_factory(di) == Arg(di)

\* Faulty variant: the value the factory produced for the previous call is kept and
\* returned again without invoking the factory.
item_callable_return_default_cached ==
    /\ pc = "return_default"
    /\ fn = "get_item_deep_default_callable"
    /\ IF prev.fn = "get_item_deep_default_callable" /\ prev.exit = "default"
       THEN /\ ret' = prev.ret
            /\ exit' = "default"
            /\ owned' = Py_INCREF(owned, prev.ret)
            /\ UNCHANGED <<factoryLog, a, err>>
       ELSE \E r \in Outcomes :
            /\ factoryLog' = Append(factoryLog, CallRecord(item_callable_factory(default_index), r))
            /\ a' = r.ret
            /\ owned' = NewReference(owned, r.ret)
            /\ IF r.ret = NULL
               THEN /\ ret' = NULL
                    /\ err' = r.err
                    /\ exit' = "factory_error"
               ELSE /\ ret' = r.ret
                    /\ exit' = "default"
                    /\ UNCHANGED err
    /\ pc' = "done"
    /\ UNCHANGED <<inputs, behaviour, fn, i, default_index, item, trace, prev>>

\* Lines 82-87: the return_default label: the factory is called and what
\* it returns, or NULL with the exception it raised, is returned.
item_callable_return_default ==
    /\ pc = "return_default"
    /\ fn = "get_item_deep_default_callable"
    /\ \E r \in Outcomes :
          /\ factoryLog' = Append(factoryLog, CallRecord(item_callable_factory(default_index), r))
          /\ a' = r.ret
          /\ owned' = NewReference(owned, r.ret)
          /\ IF r.ret = NULL
             THEN /\ ret' = NULL
                  /\ err' = r.err
                  /\ exit' = "factory_error"
             ELSE /\ ret' = r.ret
                  /\ exit' = "default"
                  /\ UNCHANGED err
    /\ pc' = "done"
    /\ UNCHANGED <<inputs, behaviour, fn, i, default_index, item, trace, prev>>

get_item_deep_default_callable ==
    \/ item_callable_entry
    \/ item_callable_loop
    \/ item_callable_return_default

(* ------------------- get_attr_deep_default_simple --------------------- *)

\* Faulty variant: the argument-count check is off by one.
attr_simple_too_few_two(n) == n < 2

\* Line 92: if (nargs < 3)
attr_simple_too_few(n) == n < 3

\* Faulty variant: the loop runs through default_index, the fallback's index.
attr_simple_continue_inclusive(idx, di) == idx <= di

\* Line 104: the loop condition i < default_index
attr_simple_continue(idx, di) == idx < di

\* Line 105: if (item == Py_None)
attr_simple_at_none(it) == it = Py_None

\* Line 110: the key of PyObject_GetAttr(item, args[i])
attr_simple_key(idx) == Arg(idx)

\* Faulty variant: the index variants' test, copied into the attribute variant.
attr_simple_is_miss_lookup(pending) ==
    \/ PyErr_ExceptionMatches(pending, PyExc_AttributeError)
    \/ PyErr_ExceptionMatches(pending, PyExc_KeyError)

\* Line 113: PyErr_ExceptionMatches(PyExc_AttributeError)
attr_simple_is_miss(pending) ==
    PyErr_ExceptionMatches(pending, PyExc_AttributeError)

\* Lines 92-102: the argument-count check, then item = args[0] and i = 1.
attr_simple_entry ==
    /\ pc = "idle"
    /\ fn' = "get_attr_deep_default_simple"
    /\ IF attr_simple_too_few(nargs)
       THEN /\ err' = PyExc_ValueError
            /\ ret' = NULL
            /\ exit' = "too_few_arguments"
            /\ pc' = "done"
            /\ UNCHANGED <<locals, owned>>
       ELSE /\ default_index' = nargs - 1
            /\ item' = Arg(0)
            /\ owned' = Py_INCREF(owned, Arg(0))
            /\ i' = 1
            /\ pc' = "loop"
            /\ UNCHANGED <<a, ret, err, exit>>
    /\ UNCHANGED <<inputs, behaviour, trace, factoryLog, prev>>

\* Faulty variant: a successful step does not advance i.
attr_simple_loop_stuck ==
    /\ pc = "loop"
    /\ fn = "get_attr_deep_default_simple"
    /\ IF attr_simple_continue(i, default_index)
       THEN IF attr_simple_at_none(item)
            THEN /\ pc' = "return_default"
                 /\ owned' = Py_DECREF(owned, item)
                 /\ UNCHANGED <<behaviour, locals, ret, err, exit, trace>>
            ELSE \E r \in StepOutcomes(i) :
                 /\ behaviour' = [behaviour EXCEPT ![i] = r]
                 /\ trace' = Append(trace, StepRecord("PyObject_GetAttr", i, item,
                                                      attr_simple_key(i), r))
                 /\ a' = r.ret
                 /\ owned' = Py_DECREF(NewReference(owned, r.ret), item)
                 /\ IF r.ret = NULL
                    THEN IF attr_simple_is_miss(r.err)
                         THEN /\ err' = NoErr
                              /\ pc' = "return_default"
                              /\ UNCHANGED <<i, default_index, item, ret, exit>>
                         ELSE /\ err' = r.err
                              /\ ret' = NULL
                              /\ exit' = "step_error"
                              /\ pc' = "done"
                              /\ UNCHANGED <<i, default_index, item>>
                    ELSE /\ item' = r.ret
                         /\ UNCHANGED <<i, default_index, pc, ret, err, exit>>
       ELSE /\ ret' = item
            /\ exit' = "item"
            /\ pc' = "done"
            /\ UNCHANGED <<behaviour, locals, err, trace, owned>>
    /\ UNCHANGED <<inputs, fn, factoryLog, prev>>

\* Lines 104-123: the loop test and one iteration (the sentinel check, the
\* step operation, the classification of its failure), or `return item`.
attr_simple_loop ==
    /\ pc = "loop"
    /\ fn = "get_attr_deep_default_simple"
    /\ IF attr_simple_continue(i, default_index)
       THEN IF attr_simple_at_none(item)
            THEN /\ pc' = "return_default"
                 /\ owned' = Py_DECREF(owned, item)
                 /\ UNCHANGED <<behaviour, locals, ret, err, exit, trace>>
            ELSE \E r \in StepOutcomes(i) :
                 /\ behaviour' = [behaviour EXCEPT ![i] = r]
                 /\ trace' = Append(trace, StepRecord("PyObject_GetAttr", i, item,
                                                      attr_simple_key(i), r))
                 /\ a' = r.ret
                 /\ owned' = Py_DECREF(NewReference(owned, r.ret), item)
                 /\ IF r.ret = NULL
                    THEN IF attr_simple_is_miss(r.err)
                         THEN /\ err' = NoErr
                              /\ pc' = "return_default"
                              /\ UNCHANGED <<i, default_index, item, ret, exit>>
                         ELSE /\ err' = r.err
                              /\ ret' = NULL
                              /\ exit' = "step_error"
                              /\ pc' = "done"
                              /\ UNCHANGED <<i, default_index, item>>
                    ELSE /\ item' = r.ret
                         /\ i' = i + 1
                         /\ UNCHANGED <<default_index, pc, ret, err, exit>>
       ELSE /\ ret' = item
            /\ exit' = "item"
            /\ pc' = "done"
            /\ UNCHANGED <<behaviour, locals, err, trace, owned>>
    /\ UNCHANGED <<inputs, fn, factoryLog, prev>>

\* Faulty variant: the index of the returned argument is off by one.
attr_simple_default_before(di) == Arg(di - 1)

\* Lines 126-127: Py_INCREF(args[default_index]); return args[default_index];
attr_simple_default(di) == Arg(di)

\* Lines 125-127: the return_default label: the static default is returned.
attr_simple_return_default ==
    /\ pc = "return_default"
    /\ fn = "get_attr_deep_default_simple"
    /\ owned' = Py_INCREF(owned, attr_simple_default(default_index))
    /\ ret' = attr_simple_default(default_index)
    /\ exit' = "default"
    /\ pc' = "done"
    /\ UNCHANGED <<inputs, behaviour, fn, locals, err, trace, factoryLog, prev>>

get_attr_deep_default_simple ==
    \/ attr_simple_entry
    \/ attr_simple_loop
    \/ attr_simple_return_default

(* ------------------- get_attr_deep_default_callable ------------------- *)

\* Line 133: if (nargs < 3)
attr_callable_too_few(n) == n < 3

\* Line 144: the loop condition i < default_index
attr_callable_continue(idx, di) == idx < di

\* Faulty variant: the sentinel check is missing.
attr_callable_at_none_never(it) == FALSE

\* Line 145: if (item == Py_None)
attr_callable_at_none(it) == it = Py_None

\* Line 150: the key of PyObject_GetAttr(item, args[i])
attr_callable_key(idx) == Arg(idx)

\* Line 153: PyErr_ExceptionMatches(PyExc_AttributeError)
attr_callable_is_miss(pending) ==
    PyErr_ExceptionMatches(pending, PyExc_AttributeError)

\* Lines 133-142: the argument-count check, then item = args[0] and i = 1.
attr_callable_entry ==
    /\ pc = "idle"
    /\ fn' = "get_attr_deep_default_callable"
    /\ IF attr_callable_too_few(nargs)
       THEN /\ err' = PyExc_ValueError
            /\ ret' = NULL
            /\ exit' = "too_few_arguments"
            /\ pc' = "done"
            /\ UNCHANGED <<locals, owned>>
       ELSE /\ default_index' = nargs - 1
            /\ item' = Arg(0)
            /\ owned' = Py_INCREF(owned, Arg(0))
            /\ i' = 1
            /\ pc' = "loop"
            /\ UNCHANGED <<a, ret, err, exit>>
    /\ UNCHANGED <<inputs, behaviour, trace, factoryLog, prev>>

\* Faulty variant: the sentinel check is applied to the value a step has
\* just returned, the final one included.
attr_callable_loop_checks_result ==
    /\ pc = "loop"
    /\ fn = "get_attr_deep_default_callable"
    /\ IF attr_callable_continue(i, default_index)
       THEN IF attr_callable_at_none(item)
            THEN /\ pc' = "return_default"
                 /\ owned' = Py_DECREF(owned, item)
                 /\ UNCHANGED <<behaviour, locals, ret, err, exit, trace>>
            ELSE \E r \in StepOutcomes(i) :
                 /\ behaviour' = [behaviour EXCEPT ![i] = r]
                 /\ trace' = Append(trace, StepRecord("PyObject_GetAttr", i, item,
                                                      attr_callable_key(i), r))
                 /\ a' = r.ret
                 /\ owned' = Py_DECREF(NewReference(owned, r.ret), item)
                 /\ IF r.ret = NULL
                    THEN IF attr_callable_is_miss(r.err)
                         THEN /\ err' = NoErr
                              /\ pc' = "return_default"
                              /\ UNCHANGED <<i, default_index, item, ret, exit>>
                         ELSE /\ err' = r.err
                              /\ ret' = NULL
                              /\ exit' = "step_error"
                              /\ pc' = "done"
                              /\ UNCHANGED <<i, default_index, item>>
                    ELSE /\ item' = r.ret
                         /\ i' = i + 1
                         /\ pc' = IF attr_callable_at_none(r.ret)
                                  THEN "return_default" ELSE pc
                         /\ UNCHANGED <<default_index, ret, err, exit>>
       ELSE /\ ret' = item
            /\ exit' = "item"
            /\ pc' = "done"
            /\ UNCHANGED <<behaviour, locals, err, trace, owned>>
    /\ UNCHANGED <<inputs, fn, factoryLog, prev>>

\* Lines 144-163: the loop test and one iteration (the sentinel check, the
\* step operation, the classification of its failure), or `return item`.
attr_callable_loop ==
    /\ pc = "loop"
    /\ fn = "get_attr_deep_default_callable"
    /\ IF attr_callable_continue(i, default_index)
       THEN IF attr_callable_at_none(item)
            THEN /\ pc' = "return_default"
                 /\ owned' = Py_DECREF(owned, item)
                 /\ UNCHANGED <<behaviour, locals, ret, err, exit, trace>>
            ELSE \E r \in StepOutcomes(i) :
                 /\ behaviour' = [behaviour EXCEPT ![i] = r]
                 /\ trace' = Append(trace, StepRecord("PyObject_GetAttr", i, item,
                                                      attr_callable_key(i), r))
                 /\ a' = r.ret
                 /\ owned' = Py_DECREF(NewReference(owned, r.ret), item)
                 /\ IF r.ret = NULL
                    THEN IF attr_callable_is_miss(r.err)
                         THEN /\ err' = NoErr
                              /\ pc' = "return_default"
                              /\ UNCHANGED <<i, default_index, item, ret, exit>>
                         ELSE /\ err' = r.err
                              /\ ret' = NULL
                              /\ exit' = "step_error"
                              /\ pc' = "done"
                              /\ UNCHANGED <<i, default_index, item>>
                    ELSE /\ item' = r.ret
                         /\ i' = i + 1
                         /\ UNCHANGED <<default_index, pc, ret, err, exit>>
       ELSE /\ ret' = item
            /\ exit' = "item"
            /\ pc' = "done"
            /\ UNCHANGED <<behaviour, locals, err, trace, owned>>
    /\ UNCHANGED <<inputs, fn, factoryLog, prev>>

\* Line 166: the callable of PyObject_CallNoArgs(args[default_index])
attr_callable_factory(di) == Arg(di)

\* Faulty variant: a failure of the factory is cleared and None returned in its place.
attr_callable_return_default_swallow ==
    /\ pc = "return_default"
    /\ fn = "get_attr_deep_default_callable"
    /\ \E r \in Outcomes :
          /\ factoryLog' = Append(factoryLog, CallRecord(attr_callable_factory(default_index), r))
          /\ a' = r.ret
          /\ owned' = NewReference(owned, r.ret)
          /\ ret' = IF r.ret = NULL THEN Py_None ELSE r.ret
          /\ exit' = "default"
          /\ UNCHANGED err
    /\ pc' = "done"
    /\ UNCHANGED <<inputs, behaviour, fn, i, default_index, item, trace, prev>>

\* Lines 165-170: the return_default label: the factory is called and what
\* it returns, or NULL with the exception it raised, is returned.
attr_callable_return_default ==
    /\ pc = "return_default"
    /\ fn = "get_attr_deep_default_callable"
    /\ \E r \in Outcomes :
          /\ factoryLog' = Append(factoryLog, CallRecord(attr_callable_factory(default_index), r))
          /\ a' = r.ret
          /\ owned' = NewReference(owned, r.ret)
          /\ IF r.ret = NULL
             THEN /\ ret' = NULL
                  /\ err' = r.err
                  /\ exit' = "factory_error"
             ELSE /\ ret' = r.ret
                  /\ exit' = "default"
                  /\ UNCHANGED err
    /\ pc' = "done"
    /\ UNCHANGED <<inputs, behaviour, fn, i, default_index, item, trace, prev>>

get_attr_deep_default_callable ==
    \/ attr_callable_entry
    \/ attr_callable_loop
    \/ attr_callable_return_default

(* ----------------------------- the caller ----------------------------- *)

\* The call has returned: the caller takes the result (or handles the
\* exception) and is free to call again.
Return ==
    /\ pc = "done"
    /\ prev' = Summary
    /\ fn' = "idle"
    /\ pc' = "idle"
    /\ i' = 0
    /\ default_index' = 0
    /\ item' = NULL
    /\ a' = NULL
    /\ ret' = NULL
    /\ err' = NoErr
    /\ exit' = "none"
    /\ trace' = <<>>
    /\ factoryLog' = <<>>
    /\ owned' = NoReferences
    /\ UNCHANGED <<inputs, behaviour>>

Next ==
    \/ get_item_deep_default_simple
    \/ get_item_deep_default_callable
    \/ get_attr_deep_default_simple
    \/ get_attr_deep_default_callable
    \/ Return

Spec == Init /\ [][Next]_vars

\* The four functions are straight-line C with one counted loop: once
\* entered, a function takes its next step whenever PyObject_GetItem,
\* PyObject_GetAttr and PyObject_CallNoArgs return.  The caller is not
\* obliged to call again.
FairSpec ==
    /\ Spec
    /\ WF_vars(get_item_deep_default_simple)
    /\ WF_vars(get_item_deep_default_callable)
    /\ WF_vars(get_attr_deep_default_simple)
    /\ WF_vars(get_attr_deep_default_callable)

(* ------------------- vocabulary of the properties --------------------- *)

\* The number of keys of the call: the argument count minus root and fallback.
NumKeys == nargs - 2

Done == pc = "done"

StaticVariants == {"get_item_deep_default_simple", "get_attr_deep_default_simple"}
FactoryVariants == {"get_item_deep_default_callable", "get_attr_deep_default_callable"}
IndexVariants == {"get_item_deep_default_simple", "get_item_deep_default_callable"}
AttributeVariants == {"get_attr_deep_default_simple", "get_attr_deep_default_callable"}

\* The classified misses of a step operation, as the specification lists
\* them: key-not-found (a KeyError, of a derived class too),
\* index-out-of-bounds, wrong-type-for-indexing; attribute-not-found.
ClassifiedMisses(op) ==
    IF op = "PyObject_GetItem"
    THEN {PyExc_KeyError, KeyErrorSubclass, PyExc_IndexError, PyExc_TypeError}
    ELSE {PyExc_AttributeError}

\* The step operation a variant is specified to call.
StepOperationOf(f) ==
    IF f \in IndexVariants THEN "PyObject_GetItem" ELSE "PyObject_GetAttr"

\* The value that is current before step k, as far as the steps invoked by
\* log tr on root r determine it (NULL: not determined).
CurrentBefore(r, tr, k) ==
    IF k = 1 THEN r
    ELSE IF \E p \in 1 .. Len(tr) : tr[p].pos = k - 1
         THEN (CHOOSE rec \in {tr[p] : p \in 1 .. Len(tr)} : rec.pos = k - 1).ret
         ELSE NULL

\* In call x (the current one, Summary, or the previous one, prev) the
\* sentinel is the current value before step k, 1 <= k <= number of keys.
SentinelBeforeIn(x, k) ==
    /\ x.fn # "idle"
    /\ nargs >= 3
    /\ k \in 1 .. NumKeys
    /\ CurrentBefore(Arg(0), x.trace, k) = Py_None

\* The p-th step invoked by call x failed with a classified miss of the
\* step operation of x's variant.
ClassifiedMissIn(x, p) ==
    /\ x.fn # "idle"
    /\ p \in 1 .. Len(x.trace)
    /\ x.trace[p].ret = NULL
    /\ x.trace[p].err \in ClassifiedMisses(StepOperationOf(x.fn))

\* The walk of call x has met a short-circuit condition.
ShortCircuitedIn(x) ==
    /\ x.fn # "idle"
    /\ \/ \E k \in 1 .. NumKeys : SentinelBeforeIn(x, k)
       \/ \E p \in 1 .. Len(x.trace) : ClassifiedMissIn(x, p)

SentinelBefore(k) == SentinelBeforeIn(Summary, k)
ClassifiedMissAt(p) == ClassifiedMissIn(Summary, p)
ShortCircuited == ShortCircuitedIn(Summary)

\* The p-th invoked step failed with anything but a classified miss.
UnclassifiedErrorAt(p) ==
    /\ p \in 1 .. Len(trace)
    /\ trace[p].ret = NULL
    /\ trace[p].err \notin ClassifiedMisses(StepOperationOf(fn))

\* Nothing the call has met so far stops the walk: the root and every value
\* a further step starts from are not the sentinel, every invoked step succeeded.
NothingStopsTheWalk ==
    /\ nargs >= 3
    /\ Arg(0) # Py_None
    /\ \A p \in 1 .. Len(trace) :
          /\ trace[p].ret # NULL
          /\ trace[p].pos < NumKeys => trace[p].ret # Py_None

\* The invoked steps are those of positions 1 .. Len(trace), in order, each on
\* the value the one before returned (the root for the first) with key args[p].
IsChainPrefix(tr) ==
    \A p \in 1 .. Len(tr) :
       /\ tr[p].pos = p
       /\ tr[p].key = Arg(p)
       /\ tr[p].obj = IF p = 1 THEN Arg(0) ELSE tr[p - 1].ret

\* The finished call has returned the fallback: the static default itself, or
\* what the one invocation of the factory args[nargs-1] produced (its value,
\* or its failure).
ResultIsFallback ==
    IF fn \in StaticVariants
    THEN /\ exit = "default"
         /\ ret = Arg(nargs - 1)
         /\ err = NoErr
         /\ factoryLog = <<>>
    ELSE /\ exit \in {"default", "factory_error"}
         /\ Len(factoryLog) = 1
         /\ factoryLog[1].callable = Arg(nargs - 1)
         /\ ret = factoryLog[1].ret
         /\ err = factoryLog[1].err

(* ------------------------------- C1 ----------------------------------- *)

\* C1: in all four variants, a finished call with at least 3 arguments in
\* which no value a step starts from is the null sentinel and every step
\* operation succeeded has invoked the step operation on the root with key 1,
\* on that result with key 2, and so on through the last key, and returns
\* exactly the last step's value; no error is pending and the return is
\* `return item`, not the return_default label.
C1_FullChainReturnsLastValue ==
    (Done /\ NothingStopsTheWalk) =>
        /\ Len(trace) = NumKeys
        /\ IsChainPrefix(trace)
        /\ \A p \in 1 .. Len(trace) : trace[p].op = StepOperationOf(fn)
        /\ ret = trace[NumKeys].ret
        /\ err = NoErr
        /\ exit = "item"
        /\ factoryLog = <<>>

\* A two-key chain has fully succeeded, through an intermediate value that
\* differs from the value returned.
C1_Witness ==
    /\ Done /\ NothingStopsTheWalk
    /\ nargs = 4
    /\ Len(trace) = 2
    /\ trace[1].ret = "A"
    /\ ret = "B"
    /\ Arg(3) = "A"

(* ------------------------------- C2 ----------------------------------- *)

\* C2: in all four variants, if the current value is the null sentinel before
\* step k (k = 1: the root; k > 1: the value step k-1 returned), no step
\* operation is ever invoked for position k or later, and the finished call's
\* result is the fallback.
C2_SentinelShortCircuits ==
    \A k \in 1 .. MaxArgs :
       SentinelBefore(k) =>
          /\ \A p \in 1 .. Len(trace) : trace[p].pos < k
          /\ Done => ResultIsFallback

\* The sentinel came out of step 1 of a two-key chain and the call finished.
C2_Witness ==
    /\ Done
    /\ nargs = 4
    /\ SentinelBefore(2)
    /\ Len(trace) = 1
    /\ fn \in FactoryVariants

(* ------------------------------- C3 ----------------------------------- *)

\* C3: if an invoked step fails with a classified miss of the variant's step
\* operation (index: KeyError, IndexError, TypeError; attribute:
\* AttributeError), it is the last step invoked, the pending exception is
\* cleared before the fallback is produced, and the finished call's result is
\* the fallback: the miss is not the error of the call.
C3_ClassifiedMissGivesFallback ==
    \A p \in 1 .. MaxArgs :
       ClassifiedMissAt(p) =>
          /\ p = Len(trace)
          /\ pc \in {"return_default", "done"}
          /\ pc = "return_default" => err = NoErr
          /\ Done => ResultIsFallback

\* Step 2 of a two-key chain failed with a TypeError in an index variant, and
\* the static default was returned.
C3_Witness ==
    /\ Done
    /\ fn = "get_item_deep_default_simple"
    /\ nargs = 4
    /\ ClassifiedMissAt(2)
    /\ trace[2].err = PyExc_TypeError
    /\ ret = "B"

(* ------------------------------- C4 ----------------------------------- *)

\* C4: if an invoked step fails with an exception that is not a classified
\* miss of the variant's step operation (for the attribute variants KeyError,
\* IndexError and TypeError are such), the call ends at once with NULL and that
\* exception pending; no later step is invoked, the return_default label is
\* not reached and the factory is not invoked.
C4_UnclassifiedErrorPropagates ==
    \A p \in 1 .. MaxArgs :
       UnclassifiedErrorAt(p) =>
          /\ p = Len(trace)
          /\ Done
          /\ ret = NULL
          /\ err = trace[p].err
          /\ exit = "step_error"
          /\ factoryLog = <<>>

\* A KeyError of step 1 has ended a call of an attribute variant.
C4_Witness ==
    /\ Done
    /\ fn = "get_attr_deep_default_callable"
    /\ UnclassifiedErrorAt(1)
    /\ trace[1].err = PyExc_KeyError
    /\ nargs = 4

(* ------------------------------- C5 ----------------------------------- *)

\* C5: in the Factory variants the factory is not invoked while the walk is
\* under way, is invoked only after a short-circuit (sentinel seen or
\* classified miss), and a finished call has invoked it exactly once if the
\* walk short-circuited and not at all otherwise (the chain fully succeeded, a
\* step raised an unclassified error, too few arguments); two successive calls
\* that both short-circuit have invoked it twice in total.
C5_FactoryOncePerShortCircuit ==
    fn \in FactoryVariants =>
        /\ pc = "loop" => factoryLog = <<>>
        /\ factoryLog # <<>> => ShortCircuited
        /\ Done => Len(factoryLog) = IF ShortCircuited THEN 1 ELSE 0
        /\ (Done /\ ShortCircuited /\ prev.fn \in FactoryVariants /\ ShortCircuitedIn(prev))
              => Len(prev.factoryLog) + Len(factoryLog) = 2

\* Two successive calls of the same Factory variant have both short-circuited.
C5_Witness ==
    /\ Done /\ ShortCircuited
    /\ fn = "get_item_deep_default_callable"
    /\ prev.fn = "get_item_deep_default_callable"
    /\ ShortCircuitedIn(prev)
    /\ Len(prev.factoryLog) = 1
    /\ Len(factoryLog) = 1
    /\ ret = "A"

(* ------------------------------- C6 ----------------------------------- *)

\* C6: in all four variants a call with fewer than 3 arguments ends, whatever
\* the arguments are, with NULL and a pending ValueError, at once: no step
\* operation is invoked, the fallback is not returned and the factory is not
\* invoked.
C6_TooFewArgumentsIsAnError ==
    (fn # "idle" /\ nargs < 3) =>
        /\ Done
        /\ ret = NULL
        /\ err = PyExc_ValueError
        /\ exit = "too_few_arguments"
        /\ trace = <<>>
        /\ factoryLog = <<>>

\* A call with two arguments whose root is the sentinel has ended.
C6_Witness ==
    /\ Done
    /\ fn = "get_attr_deep_default_simple"
    /\ nargs = 2
    /\ Arg(0) = Py_None
    /\ err = PyExc_ValueError

(* ------------------------------- C7 ----------------------------------- *)

\* C7: in the Factory variants, if the invocation of the factory fails, the
\* call ends with NULL and the factory's exception pending; the factory has
\* been invoked once only and no value is returned in its place.
C7_FactoryFailurePropagates ==
    \A q \in 1 .. Len(factoryLog) :
       factoryLog[q].ret = NULL =>
          /\ Done
          /\ ret = NULL
          /\ err = factoryLog[q].err
          /\ exit = "factory_error"
          /\ Len(factoryLog) = 1

\* The factory raised after a classified miss at step 1 of an attribute walk.
C7_Witness ==
    /\ Done
    /\ fn = "get_attr_deep_default_callable"
    /\ ClassifiedMissAt(1)
    /\ Len(factoryLog) = 1
    /\ factoryLog[1].err = PyExc_RuntimeError
    /\ err = PyExc_RuntimeError

(* ------------------------------- C8 ----------------------------------- *)

\* C8: in the StaticValue variants, a finished call whose walk short-circuited
\* has returned the very object passed as the last argument, and so has the
\* call before it when that one short-circuited too.
C8_StaticDefaultIsTheLastArgument ==
    (Done /\ fn \in StaticVariants /\ ShortCircuited) =>
        /\ ret = Arg(nargs - 1)
        /\ (prev.fn \in StaticVariants /\ ShortCircuitedIn(prev)) => prev.ret = ret

\* Two successive calls of StaticValue variants have short-circuited; the
\* default differs from the root.
C8_Witness ==
    /\ Done /\ ShortCircuited
    /\ fn = "get_attr_deep_default_simple"
    /\ prev.fn = "get_item_deep_default_simple"
    /\ ShortCircuitedIn(prev)
    /\ nargs = 4
    /\ Arg(0) = "A"
    /\ ret = "B"

(* ------------------------------- C9 ----------------------------------- *)

\* C9: at every point of every call the step operations invoked so far are
\* those of positions 1, 2, .., m in that order, m at most the number of
\* keys, each once, step p on the value step p-1 returned (the root for p = 1)
\* with args[p] as its key, by the variant's step operation; the index of the
\* last argument is never that of a step key.
C9_StepsAreAChainPrefix ==
    /\ IsChainPrefix(trace)
    /\ fn # "idle" =>
          /\ Len(trace) <= (IF nargs >= 3 THEN NumKeys ELSE 0)
          /\ \A p \in 1 .. Len(trace) :
                /\ trace[p].op = StepOperationOf(fn)
                /\ trace[p].pos # nargs - 1
                /\ p > 1 => trace[p - 1].ret \notin {NULL, Py_None}

\* Both steps of a two-key chain have been invoked, the second on the value
\* the first returned.
C9_Witness ==
    /\ nargs = 4
    /\ Len(trace) = 2
    /\ trace[1].obj = "A"
    /\ trace[1].ret = "B"
    /\ trace[2].obj = "B"
    /\ trace[2].key = "k2"

(* ------------------------------- C10 ---------------------------------- *)

\* The kind of outcome of a finished call x: the value of a full success, the
\* position of a short-circuit, the exception of a propagated step error.
OutcomeKind(x) ==
    CASE x.exit = "item" -> [kind |-> "value", val |-> x.ret, pos |-> 0]
      [] x.exit = "step_error" -> [kind |-> "error", val |-> x.err, pos |-> 0]
      [] x.exit \in {"default", "factory_error"} ->
                                  [kind |-> "short-circuit", val |-> "", pos |-> x.i]
      [] OTHER -> [kind |-> "too_few_arguments", val |-> "", pos |-> 0]

\* A log of steps without the name of the operation called.
Walk(tr) ==
    [p \in 1 .. Len(tr) |->
        [pos |-> tr[p].pos, obj |-> tr[p].obj, key |-> tr[p].key,
         ret |-> tr[p].ret, err |-> tr[p].err]]

\* No step of the log failed with an exception one of the two step kinds
\* classifies as a miss.
NoMissOfEitherKind(tr) ==
    \A p \in 1 .. Len(tr) :
       tr[p].err \notin (ClassifiedMisses("PyObject_GetItem")
                          \cup ClassifiedMisses("PyObject_GetAttr"))

\* C10: two successive calls on the same root and keys, with step operations
\* that behave the same.  If they are the StaticValue and the Factory variant
\* of one step kind, they invoke the identical sequence of step operations
\* and end in the same kind of outcome (the same value, a short-circuit at the
\* same position, the same propagated exception).  If they are an index and an
\* attribute variant, their walks agree step by step as far as both go, and
\* are the same walk with the same kind of outcome unless a step fails with an
\* exception that one of the two kinds classifies as a miss.
C10_VariantsShareTheWalk ==
    (Done /\ prev.fn # "idle") =>
        /\ ((prev.fn \in IndexVariants) = (fn \in IndexVariants)
              /\ (prev.fn \in StaticVariants) # (fn \in StaticVariants))
             => /\ prev.trace = trace
                /\ OutcomeKind(prev) = OutcomeKind(Summary)
        /\ ((prev.fn \in IndexVariants) # (fn \in IndexVariants))
             => /\ \A p \in 1 .. Len(trace) :
                      p <= Len(prev.trace) => Walk(prev.trace)[p] = Walk(trace)[p]
                /\ (NoMissOfEitherKind(trace) /\ NoMissOfEitherKind(prev.trace))
                      => /\ Walk(prev.trace) = Walk(trace)
                         /\ OutcomeKind(prev) = OutcomeKind(Summary)

\* The StaticValue and then the Factory variant of the index kind have both
\* short-circuited on the sentinel before step 2 of a two-key chain.
C10_Witness ==
    /\ Done
    /\ prev.fn = "get_item_deep_default_simple"
    /\ fn = "get_item_deep_default_callable"
    /\ nargs = 4
    /\ SentinelBefore(2)
    /\ OutcomeKind(prev).kind = "short-circuit"
    /\ OutcomeKind(Summary).pos = 2

\* An index and then an attribute variant have both walked a two-key chain to
\* its end.
C10_WitnessAcrossKinds ==
    /\ Done
    /\ prev.fn = "get_item_deep_default_simple"
    /\ fn = "get_attr_deep_default_callable"
    /\ nargs = 4
    /\ exit = "item"
    /\ Len(trace) = 2

(* ------------------------------- C11 ---------------------------------- *)

\* A call is under way: entered and not yet returned.
Running == pc \in {"loop", "return_default"}

\* C11: provided the step operations and the factory return, every call that
\* is under way eventually finishes; a finished call has exactly one outcome,
\* a value with no exception pending or NULL with one; a call never invokes
\* more step operations than it has keys, and every turn of the loop that
\* stays in the loop moves to the next position and invokes one step.
C11_EveryCallFinishes ==
    /\ Running ~> Done
    /\ [](Done => ((ret = NULL) # (err = NoErr)))
    /\ [](fn # "idle" => Len(trace) <= (IF nargs >= 3 THEN NumKeys ELSE 0))
    /\ [][(pc = "loop" /\ pc' = "loop")
             => (i' = i + 1 /\ Len(trace') = Len(trace) + 1)]_vars

\* A call with two keys has finished after invoking both steps.
C11_Witness ==
    /\ Done
    /\ nargs = 4
    /\ Len(trace) = 2
    /\ i = 3
    /\ ret # NULL

(* ------------------------------- C12 ---------------------------------- *)

\* The step of the last key has been invoked and has returned the sentinel.
LastStepYieldsSentinel ==
    /\ nargs >= 3
    /\ Len(trace) >= NumKeys
    /\ trace[NumKeys].pos = NumKeys
    /\ trace[NumKeys].ret = Py_None

\* C12: if the last step of the chain succeeds and yields the null sentinel,
\* the call returns the sentinel itself by `return item`: the return_default
\* label is not reached, the factory is not invoked, no exception is pending.
C12_SentinelAsFinalResultIsReturned ==
    LastStepYieldsSentinel =>
        /\ pc \in {"loop", "done"}
        /\ factoryLog = <<>>
        /\ err = NoErr
        /\ Done => (ret = Py_None /\ exit = "item")

\* A two-key chain has ended in the sentinel, with a fallback that is not
\* the sentinel, and the call has returned.
C12_Witness ==
    /\ Done
    /\ LastStepYieldsSentinel
    /\ nargs = 4
    /\ Arg(3) = "A"
    /\ fn = "get_attr_deep_default_callable"

(* ------------------------------- C13 ---------------------------------- *)

\* The call owns one reference, to object o, and nothing else.
OneReferenceTo(o) == [x \in Objects |-> IF x = o THEN 1 ELSE 0]

\* C13: reference ownership is balanced at every point of all four variants.
\* The call never releases a reference it does not own; while the walk is
\* under way it owns exactly one reference, to the current value, so the value
\* a step is invoked on is still held; at the return_default label (after the
\* sentinel or a classified miss) and on every error return (too few
\* arguments, unclassified step error, factory failure) every reference
\* acquired on the root or an intermediate value has been released; on a value
\* return the one reference left is to the returned value and is the caller's.
C13_ReferencesAreBalanced ==
    /\ \A o \in Objects : owned[o] >= 0
    /\ pc = "idle" => owned = NoReferences
    /\ pc = "loop" => owned = OneReferenceTo(item)
    /\ pc = "return_default" => owned = NoReferences
    /\ Done => owned = IF ret = NULL THEN NoReferences ELSE OneReferenceTo(ret)

\* The static default, an object other than the root and the intermediate
\* value, has been returned after a classified miss at step 2.
C13_Witness ==
    /\ Done
    /\ fn = "get_item_deep_default_simple"
    /\ nargs = 4
    /\ Arg(0) = "A"
    /\ Len(trace) = 2
    /\ trace[1].ret = "A"
    /\ ClassifiedMissAt(2)
    /\ ret = "B"
    /\ owned["B"] = 1

(* ------------------------------- C14 ---------------------------------- *)

\* C14: the pending exception is consistent with the outcome in all four
\* variants.  None is pending while the walk is under way nor at the
\* return_default label, so the exception of a classified miss is cleared
\* before the static default is returned or the factory invoked; a call that
\* returns a value leaves none pending; a call that returns NULL leaves one
\* pending: ValueError for too few arguments, the step's exception for an
\* unclassified step error, the factory's for a factory failure.
C14_PendingErrorMatchesOutcome ==
    /\ Running => err = NoErr
    /\ (Done /\ ret # NULL) => err = NoErr
    /\ (Done /\ ret = NULL) =>
          /\ err # NoErr
          /\ exit \in {"too_few_arguments", "step_error", "factory_error"}
          /\ exit = "too_few_arguments" => err = PyExc_ValueError
          /\ exit = "step_error" => err = trace[Len(trace)].err
          /\ exit = "factory_error" => err = factoryLog[Len(factoryLog)].err

\* The factory has returned a value after a KeyError of step 1 was cleared.
C14_Witness ==
    /\ Done
    /\ fn = "get_item_deep_default_callable"
    /\ Len(trace) = 1
    /\ trace[1].err = PyExc_KeyError
    /\ Len(factoryLog) = 1
    /\ ret = "A"
    /\ err = NoErr

====
